---- MODULE Spec2Model ----
(***************************************************************************)
(* A model of .github/tools/reviewer.js: the diff position indexer, the    *)
(* backoff computation, the retrying completion client (openaiChat) and    *)
(* main(): validation, comment dispatch and the commit of tests and docs.  *)
(*                                                                         *)
(* Strings are sequences of one-character strings, so that split,          *)
(* startsWith and the duration parser are computed character by character. *)
(* Durations are integers in milliseconds (the code's seconds times 1000), *)
(* so that Math.random() in [0,1) is a jitter in 0..999.                   *)
(***************************************************************************)
EXTENDS Integers, Sequences, FiniteSets, TLC

VARIABLES
  \* ---- diff position indexer, called on its own
  ipc,          \* "input" | "built" | "resolved"
  patchLines,   \* the lines the patch text was joined from (what the patch means)
  patch,        \* the patch text handed to the code, or UNDEFINED
  addedIndex,   \* the ordinal handed to positionFromNthAdded, or UNDEFINED
  positions,    \* what buildAddedLinePositions returned
  position,     \* what positionFromNthAdded returned
  \* ---- waitSecondsFrom, called on its own
  wpc,          \* "input" | "computed"
  wHeaders,     \* the headers of the failed response
  wAttempt,     \* the attempt number a; the function is also applied to a+1
  wJitterA,     \* Math.random() of the call for attempt a (ms)
  wJitterB,     \* Math.random() of the call for attempt a+1 (ms)
  waitA,        \* waitSecondsFrom(headers, a)
  waitB,        \* waitSecondsFrom(headers, a+1)
  \* ---- openaiChat: one call
  cpc,          \* "idle" | "post" | "await" | "sleep" | "done"
  attempt,      \* the loop variable of line 77
  resp,         \* the last response received
  jitter,       \* Math.random() of the last waitSecondsFrom call (ms)
  wait,         \* the last backoff wait computed (ms)
  chatLog,      \* what the call did so far: requests, failures, sleeps, success
  chatResult,   \* what the call gave its caller: a text returned or an error thrown
  \* ---- main: one run
  mpc,          \* where main is: "idle" | "start" | "config" | "files" | "chat1" |
                \* "chat2" | the host call it awaits ("review" | "fallback" |
                \* "blob" | "getCommit" | "tree" | "commit" | "ref" | "pushed") |
                \* "done" (it returned) | "exit1"
  config,       \* what getJSONConfig returned (line 211), UNDEFINED for null
  settings,     \* MAX_COMMENTS, TESTS_ENABLED, DOCS_ENABLED, TARGET_GLOBS
  files,        \* the changed files the host listed
  patchByPath,  \* the in-scope files' patches, as pairs <<filename, patch>>
  chatCalls,    \* how many times main called openaiChat
  earlierRequests, \* how many requests the call before the repair call sent
  content,      \* the first completion text
  repaired,     \* the completion text of the repair request
  parsed,       \* the validated output (line 313), or UNDEFINED
  output,       \* parsed after the flags and the cap of lines 316-318, or UNDEFINED
  inlineComments,   \* line 321
  fallbackSnippets, \* line 322
  inlinePosted,     \* line 344
  blobs,        \* line 376
  hostLog,      \* the calls main made to the host from line 347 on, and their replies
  branch        \* what the pull request's branch points to on the host

indexerVars == <<ipc, patchLines, patch, addedIndex, positions, position>>
waitVars == <<wpc, wHeaders, wAttempt, wJitterA, wJitterB, waitA, waitB>>
chatVars == <<cpc, attempt, resp, jitter, wait, chatLog, chatResult>>
dispatchVars ==
  <<output, inlineComments, fallbackSnippets, inlinePosted, blobs, hostLog, branch>>
mainVars ==
  <<mpc, config, settings, files, patchByPath, chatCalls, earlierRequests, content, repaired, parsed, dispatchVars>>
vars == <<indexerVars, waitVars, chatVars, mainVars>>

\* A value that may be undefined (a missing argument, Map.get of a missing key,
\* an array index out of range) is a sequence of at most one element.
UNDEFINED == <<>>
Some(x) == <<x>>
isUndefined(o) == Len(o) = 0
valueOf(o) == o[1]

----------------------------------------------------------------------------
(* Strings *)

NL == "\n"

Max(a, b) == IF a >= b THEN a ELSE b
Min(a, b) == IF a <= b THEN a ELSE b

\* String.prototype.startsWith
startsWith(s, prefix) ==
  /\ Len(s) >= Len(prefix)
  /\ SubSeq(s, 1, Len(prefix)) = prefix

\* String.prototype.split("\n"): the pieces between the separators; the empty
\* string splits into one empty piece.
RECURSIVE splitFrom(_, _, _)
splitFrom(s, i, cur) ==
  IF i > Len(s) THEN <<cur>>
  ELSE IF s[i] = NL THEN <<cur>> \o splitFrom(s, i + 1, <<>>)
  ELSE splitFrom(s, i + 1, Append(cur, s[i]))

split(s) == splitFrom(s, 1, <<>>)

\* Array.prototype.join("\n"), by which a patch text is made of its lines
RECURSIVE join(_)
join(lines) ==
  IF Len(lines) = 0 THEN <<>>
  ELSE IF Len(lines) = 1 THEN lines[1]
  ELSE lines[1] \o <<NL>> \o join(Tail(lines))

----------------------------------------------------------------------------
(* Diff position indexer (reviewer.js 180-198) *)

\* the most lines of a patch, and the largest ordinal asked for
MaxLines == 4
MaxOrdinal == 5

\* The lines a patch is made of: an empty line, additions, a "+++" file
\* header, a deletion, a context line and a hunk header.
LineChoices ==
  { <<>>,
    <<"+">>,
    <<"+", "a">>,
    <<"+", "+", "+", "a">>,
    <<"-", "a">>,
    <<" ", "a">>,
    <<"@", "@">> }

PatchLineSeqs == UNION { [1..n -> LineChoices] : n \in 1..MaxLines }

\* The ordinals handed in: absent, zero, negative, in range and beyond.
Ordinals == {UNDEFINED} \cup { Some(k) : k \in -1..MaxOrdinal }

\* !patch: undefined or the empty string
noText(p) == isUndefined(p) \/ valueOf(p) = <<>>
\* !addedIndexOneBased: undefined or 0
noNumber(k) == isUndefined(k) \/ valueOf(k) = 0

\* isAddedLine without the exclusion of "+++"
isAddedLine_anyPlus(line) == startsWith(line, <<"+">>)

\* the test of line 188
isAddedLine(line) == startsWith(line, <<"+">>) /\ ~startsWith(line, <<"+", "+", "+">>)

\* The loop of lines 185-191 from line i on, pos lines having been counted.
RECURSIVE scanLines(_, _, _, _)
scanLines(lines, i, pos, acc) ==
  IF i > Len(lines) THEN acc
  ELSE LET pos1 == pos + 1
       IN scanLines(lines, i + 1, pos1,
                    IF isAddedLine(lines[i]) THEN Append(acc, pos1) ELSE acc)

buildAddedLinePositions(p) ==
  IF noText(p) THEN <<>> ELSE scanLines(split(valueOf(p)), 1, 0, <<>>)

\* positionFromNthAdded indexing the array with the 1-based ordinal
positionFromNthAdded_oneBased(p, addedIndexOneBased) ==
  IF noText(p) \/ noNumber(addedIndexOneBased) \/ valueOf(addedIndexOneBased) < 1
  THEN UNDEFINED
  ELSE LET arr == buildAddedLinePositions(p)
           k == valueOf(addedIndexOneBased)
       IN IF k < Len(arr) THEN Some(arr[k + 1]) ELSE UNDEFINED

positionFromNthAdded(p, addedIndexOneBased) ==
  IF noText(p) \/ noNumber(addedIndexOneBased) \/ valueOf(addedIndexOneBased) < 1
  THEN UNDEFINED
  ELSE LET arr == buildAddedLinePositions(p)
           k == valueOf(addedIndexOneBased)
       IN IF k - 1 < Len(arr)
          THEN Some(arr[k])                 \* arr[k - 1], the array being 0-based
          ELSE UNDEFINED

InitIndexer ==
  /\ ipc = "input"
  /\ \/ /\ patchLines \in PatchLineSeqs
        /\ patch = Some(join(patchLines))
     \/ /\ patchLines = <<>>                   \* a file listed without a patch
        /\ patch = UNDEFINED
  /\ addedIndex \in Ordinals
  /\ positions = <<>>
  /\ position = UNDEFINED

IndexerBuild ==
  /\ ipc = "input"
  /\ positions' = buildAddedLinePositions(patch)
  /\ ipc' = "built"
  /\ UNCHANGED <<patchLines, patch, addedIndex, position>>

IndexerResolve ==
  /\ ipc = "built"
  /\ position' = positionFromNthAdded(patch, addedIndex)
  /\ ipc' = "resolved"
  /\ UNCHANGED <<patchLines, patch, addedIndex, positions>>

IdleIndexer ==
  /\ ipc = "idle"
  /\ patchLines = <<>>
  /\ patch = UNDEFINED
  /\ addedIndex = UNDEFINED
  /\ positions = <<>>
  /\ position = UNDEFINED

----------------------------------------------------------------------------
(* Backoff wait (reviewer.js 41-57) *)

\* the largest attempt number a the wait is computed for (and for a + 1)
MaxAttemptArg == 8

DigitVal ==
  [c \in {"0", "1", "2", "3", "4", "5", "6", "7", "8", "9"} |->
     CASE c = "0" -> 0 [] c = "1" -> 1 [] c = "2" -> 2 [] c = "3" -> 3
       [] c = "4" -> 4 [] c = "5" -> 5 [] c = "6" -> 6 [] c = "7" -> 7
       [] c = "8" -> 8 [] c = "9" -> 9]

isDigit(c) == c \in DOMAIN DigitVal

\* the length of the longest run of digits of s that starts at p: \d+ from p
RECURSIVE digitRun(_, _)
digitRun(s, p) ==
  IF p <= Len(s) /\ isDigit(s[p]) THEN 1 + digitRun(s, p + 1) ELSE 0

\* Number() of the n digits of s from p on
RECURSIVE digitsValue(_, _, _)
digitsValue(s, p, n) ==
  IF n = 0 THEN 0
  ELSE 10 * digitsValue(s, p, n - 1) + DigitVal[s[p + n - 1]]

\* the /i flag: a unit letter matches in either case
toLowerCase(c) ==
  CASE c = "H" -> "h" [] c = "M" -> "m" [] c = "S" -> "s" [] OTHER -> c

\* /^\d+(\.\d+)?$/: digits, then optionally a dot and digits, and nothing else
isPlainNumber(v) ==
  LET n == digitRun(v, 1)
  IN /\ n > 0
     /\ \/ n = Len(v)
        \/ /\ n + 1 < Len(v)
           /\ v[n + 1] = "."
           /\ digitRun(v, n + 2) = Len(v) - n - 1

\* Number(v) of a plain number, in milliseconds (fractions beyond the third
\* digit are below the model's resolution)
plainNumberMs(v) ==
  LET n == digitRun(v, 1)
      f == Len(v) - n - 1                     \* digits after the dot, if any
      whole == digitsValue(v, 1, n) * 1000
  IN IF n = Len(v) THEN whole
     ELSE whole + CASE f = 1 -> digitsValue(v, n + 2, 1) * 100
                    [] f = 2 -> digitsValue(v, n + 2, 2) * 10
                    [] OTHER -> digitsValue(v, n + 2, 3)

\* One optional group (?:(\d+)u)? of the regex of line 44, tried at p: the
\* number captured (0 when the group does not match) and where the match goes on.
unitGroup(v, p, u) ==
  LET n == digitRun(v, p)
  IN IF n > 0 /\ p + n <= Len(v) /\ toLowerCase(v[p + n]) = u
     THEN [num |-> digitsValue(v, p, n), next |-> p + n + 1]
     ELSE [num |-> 0, next |-> p]

\* parseDurationSeconds, in milliseconds. The regex of line 44 is not anchored
\* and each of its groups is optional, so it always matches at index 0,
\* possibly the empty string: m is never null.
parseDurationSeconds(v) ==
  IF v = <<>> THEN 0
  ELSE IF isPlainNumber(v) THEN plainNumberMs(v)
  ELSE LET h == unitGroup(v, 1, "h")
           mn == unitGroup(v, h.next, "m")
           s == unitGroup(v, mn.next, "s")
       IN (h.num * 3600 + mn.num * 60 + s.num) * 1000

\* h(n) of line 50: the header's text, "" when it is missing or empty
headerText(headers, n) ==
  IF isUndefined(headers[n]) \/ valueOf(headers[n]) = <<>>
  THEN <<>>
  ELSE valueOf(headers[n])

\* waitSecondsFrom with the exponential term capped at 30
waitSecondsFrom_cap30(headers, att, random) ==
  LET retryAfter == parseDurationSeconds(headerText(headers, "retry-after"))
      resetReq == parseDurationSeconds(headerText(headers, "x-ratelimit-reset-requests"))
      resetTok == parseDurationSeconds(headerText(headers, "x-ratelimit-reset-tokens"))
      exp == Min(30, 2 ^ (att - 1)) * 1000
  IN Max(Max(retryAfter, resetReq), Max(resetTok, exp + random))

\* waitSecondsFrom, in milliseconds; random is what Math.random() returned,
\* in thousandths.
waitSecondsFrom(headers, att, random) ==
  LET retryAfter == parseDurationSeconds(headerText(headers, "retry-after"))
      resetReq == parseDurationSeconds(headerText(headers, "x-ratelimit-reset-requests"))
      resetTok == parseDurationSeconds(headerText(headers, "x-ratelimit-reset-tokens"))
      exp == Min(60, 2 ^ (att - 1)) * 1000
  IN Max(Max(retryAfter, resetReq), Max(resetTok, exp + random))

\* What a rate-limit header may hold, with the duration it denotes (ms): the
\* header missing, a plain count of seconds (whole or fractional), NhNmNs
\* durations with components missing, and a duration of fractional seconds.
HeaderChoices ==
  { [text |-> UNDEFINED, ms |-> 0],
    [text |-> Some(<<"2", ".", "5", "s">>), ms |-> 2500],
    [text |-> Some(<<"2">>), ms |-> 2000],
    [text |-> Some(<<"1", ".", "5">>), ms |-> 1500],
    [text |-> Some(<<"1", "0", "0">>), ms |-> 100000],
    [text |-> Some(<<"4", "5", "s">>), ms |-> 45000],
    [text |-> Some(<<"1", "m", "5", "s">>), ms |-> 65000],
    [text |-> Some(<<"1", "H">>), ms |-> 3600000] }

HeaderNames == {"retry-after", "x-ratelimit-reset-requests", "x-ratelimit-reset-tokens"}

\* the headers object the code reads, made of the header values sent
headersObject(sent) == [n \in HeaderNames |-> sent[n].text]

\* Math.random(), in thousandths
JitterChoices == {0, 500, 999}

InitWait ==
  /\ wpc = "input"
  /\ wHeaders \in [HeaderNames -> HeaderChoices]
  /\ wAttempt \in 1..MaxAttemptArg
  /\ wJitterA \in JitterChoices
  /\ wJitterB \in JitterChoices
  /\ waitA = 0
  /\ waitB = 0

ComputeWaits ==
  /\ wpc = "input"
  /\ waitA' = waitSecondsFrom(headersObject(wHeaders), wAttempt, wJitterA)
  /\ waitB' = waitSecondsFrom(headersObject(wHeaders), wAttempt + 1, wJitterB)
  /\ wpc' = "computed"
  /\ UNCHANGED <<wHeaders, wAttempt, wJitterA, wJitterB>>

IdleWait ==
  /\ wpc = "idle"
  /\ wHeaders = <<>>
  /\ wAttempt = 0
  /\ wJitterA = 0
  /\ wJitterB = 0
  /\ waitA = 0
  /\ waitB = 0

----------------------------------------------------------------------------
(* Completion texts *)

\* A completion text is a sequence of tokens: FENCE is a marker of three
\* backticks, LABEL
\* the word json right after a marker, SPACE a run of whitespace, PROSE text
\* that is not JSON, and a JSON value is named by what it parses to: "review1"
\* to "review5" are objects that conform to SCHEMA, "other" is valid JSON
\* that does not (an object without tests and docs).
FENCE == "fence"
LABEL == "json"
SPACE == " "
PROSE == "prose"
ConformingJson == {"review1", "review2", "review3", "review4", "review5"}
JsonTokens == ConformingJson \cup {"other"}

\* The texts a completion may hold.
Contents ==
  { <<"review1">>,
    <<SPACE, "review2", SPACE>>,
    <<FENCE, LABEL, SPACE, "review1", SPACE, FENCE>>,
    <<PROSE, FENCE, SPACE, "review2", FENCE, PROSE>>,
    <<FENCE, PROSE, FENCE, SPACE, FENCE, LABEL, "review1", FENCE>>,
    <<FENCE, PROSE, FENCE, SPACE, FENCE, "review1", FENCE>>,
    <<FENCE, "review2", FENCE, FENCE, LABEL, "other", FENCE>>,
    <<FENCE, LABEL, "review1">>,
    <<FENCE, LABEL, "other", FENCE>>,
    <<PROSE, "review1">>,
    <<"review3">>,
    <<"review4">>,
    <<"review5">>,
    <<"other">>,
    <<PROSE>> }

----------------------------------------------------------------------------
(* Completion client (reviewer.js 59-103) *)

\* line 75
maxAttempts == 6

\* The errors the call can throw: the error of a failed request (e, with the
\* response it carries, if any) or one made by the code (response undefined).
AxiosError(status, code) ==
  [message |-> "request failed", response |-> Some([status |-> status, code |-> code])]
NoResponseError == [message |-> "timeout", response |-> UNDEFINED]
EmptyContentError == [message |-> "OpenAI: empty response content", response |-> UNDEFINED]
QuotaError ==
  [message |-> "OpenAI insufficient_quota: check billing and API key quota",
   response |-> UNDEFINED]
ExhaustedError == [message |-> "OpenAI: exhausted retries", response |-> UNDEFINED]

NoResult == [kind |-> "pending", text |-> <<>>, error |-> <<>>]
Returned(text) == [kind |-> "returned", text |-> text, error |-> <<>>]
Thrown(e) == [kind |-> "thrown", text |-> <<>>, error |-> e]

NoHeaders == [n \in HeaderNames |-> [text |-> UNDEFINED, ms |-> 0]]

NoResponse == [status |-> UNDEFINED, code |-> UNDEFINED, sent |-> NoHeaders, content |-> UNDEFINED]

\* e.response?.status and e.response?.data?.error?.code of lines 84 and 86
statusOf(e) == IF isUndefined(e.response) THEN UNDEFINED ELSE Some(valueOf(e.response).status)
codeOf(e) == IF isUndefined(e.response) THEN UNDEFINED ELSE valueOf(e.response).code

\* catchOutcome testing the status before the quota code
catchOutcome_statusFirst(status, code) ==
  IF /\ ~isUndefined(status)
     /\ \/ valueOf(status) = 429
        \/ valueOf(status) >= 500 /\ valueOf(status) < 600
  THEN "retry"
  ELSE IF code = Some("insufficient_quota") THEN "quota"
  ELSE "rethrow"

\* catchOutcome taking 4xx for retryable too
catchOutcome_retry4xx(status, code) ==
  IF code = Some("insufficient_quota") THEN "quota"
  ELSE IF ~isUndefined(status) /\ valueOf(status) >= 400 /\ valueOf(status) < 600
       THEN "retry"
  ELSE "rethrow"

\* lines 90-99: what the catch block does with an error of this status and code
catchOutcome(status, code) ==
  IF code = Some("insufficient_quota") THEN "quota"
  ELSE IF /\ ~isUndefined(status)
          /\ \/ valueOf(status) = 429
             \/ valueOf(status) >= 500 /\ valueOf(status) < 600
       THEN "retry"
  ELSE "rethrow"

\* The entries of the call's log. A failure is logged with the status of its
\* response (undefined when there is none) and whether it carries the quota code.
Request == [ev |-> "request", status |-> UNDEFINED, quota |-> FALSE]
Success == [ev |-> "success", status |-> UNDEFINED, quota |-> FALSE]
Failure(e) ==
  [ev |-> "failure", status |-> statusOf(e),
   quota |-> codeOf(e) = Some("insufficient_quota")]
Sleep == [ev |-> "sleep", status |-> UNDEFINED, quota |-> FALSE]

\* openaiChat is entered: lines 61-77
chatEntered ==
  /\ cpc' = "post"
  /\ attempt' = 1
  /\ resp' = NoResponse
  /\ jitter' = 0
  /\ wait' = 0
  /\ chatLog' = <<>>
  /\ chatResult' = NoResult

\* line 79: the request of this attempt is sent
ChatRequest ==
  /\ cpc = "post"
  /\ chatLog' = Append(chatLog, Request)
  /\ cpc' = "await"
  /\ UNCHANGED <<attempt, resp, jitter, wait, chatResult>>

\* catch going on to the next attempt without a sleep
catch_noSleep(e, sent, j) ==
  LET outcome == catchOutcome(statusOf(e), codeOf(e))
  IN /\ UNCHANGED attempt
     /\ \/ /\ outcome = "quota"
           /\ chatLog' = Append(chatLog, Failure(e))
           /\ chatResult' = Thrown(QuotaError)
           /\ cpc' = "done"
           /\ UNCHANGED <<jitter, wait>>
        \/ /\ outcome = "retry"
           /\ jitter' = j
           /\ wait' = waitSecondsFrom(headersObject(sent), attempt, j)
           /\ chatLog' = Append(chatLog, Failure(e))
           /\ cpc' = "sleep"
           /\ UNCHANGED chatResult
        \/ /\ outcome = "rethrow"
           /\ chatLog' = Append(chatLog, Failure(e))
           /\ chatResult' = Thrown(e)
           /\ cpc' = "done"
           /\ UNCHANGED <<jitter, wait>>

\* lines 83-99: the catch block, for the error e of a response that sent the
\* headers `sent`, Math.random() returning j if it is called
catch(e, sent, j) ==
  LET outcome == catchOutcome(statusOf(e), codeOf(e))
  IN /\ UNCHANGED attempt
     /\ \/ /\ outcome = "quota"
           /\ chatLog' = Append(chatLog, Failure(e))
           /\ chatResult' = Thrown(QuotaError)
           /\ cpc' = "done"
           /\ UNCHANGED <<jitter, wait>>
        \/ /\ outcome = "retry"
           /\ jitter' = j
           /\ wait' = waitSecondsFrom(headersObject(sent), attempt, j)
           /\ chatLog' = Append(chatLog, Failure(e)) \o <<Sleep>>
           /\ cpc' = "sleep"
           /\ UNCHANGED chatResult
        \/ /\ outcome = "rethrow"
           /\ chatLog' = Append(chatLog, Failure(e))
           /\ chatResult' = Thrown(e)
           /\ cpc' = "done"
           /\ UNCHANGED <<jitter, wait>>

\* lines 79-82: the response carries a completion text, which is returned
ChatSuccess(C) ==
  /\ cpc = "await"
  /\ \E c \in C :
       /\ resp' = [status |-> Some(200), code |-> UNDEFINED, sent |-> NoHeaders,
                   content |-> Some(c)]
       /\ chatResult' = Returned(c)
  /\ chatLog' = Append(chatLog, Success)
  /\ cpc' = "done"
  /\ UNCHANGED <<attempt, jitter, wait>>

\* lines 80-81: the response carries no text (no choices, or an empty content)
ChatEmptyContent ==
  /\ cpc = "await"
  /\ \E c \in {UNDEFINED, Some(<<>>)} :
       resp' = [status |-> Some(200), code |-> UNDEFINED, sent |-> NoHeaders,
                content |-> c]
  /\ catch(EmptyContentError, NoHeaders, 0)

\* line 79 throws with no response: a timeout or a network error
ChatNoResponse ==
  /\ cpc = "await"
  /\ resp' = NoResponse
  /\ catch(NoResponseError, NoHeaders, 0)

\* line 79 throws with the response of an HTTP error
ChatErrorResponse(S, K, H, J) ==
  /\ cpc = "await"
  /\ \E st \in S, cd \in K, sent \in H, j \in J :
       /\ resp' = [status |-> Some(st), code |-> cd, sent |-> sent, content |-> UNDEFINED]
       /\ catch(AxiosError(st, cd), sent, j)

\* ChatSleepDone going on to a request after the last attempt too
ChatSleepDone_noLimit ==
  /\ cpc = "sleep"
  /\ attempt' = attempt + 1
  /\ IF attempt + 1 <= maxAttempts + 1
     THEN /\ cpc' = "post"
          /\ UNCHANGED chatResult
     ELSE /\ cpc' = "done"
          /\ chatResult' = Thrown(ExhaustedError)
  /\ UNCHANGED <<resp, jitter, wait, chatLog>>

\* lines 96-97 and 77, 102: the sleep ends, and the loop goes on or the
\* attempts are exhausted
ChatSleepDone ==
  /\ cpc = "sleep"
  /\ attempt' = attempt + 1
  /\ IF attempt + 1 <= maxAttempts
     THEN /\ cpc' = "post"
          /\ UNCHANGED chatResult
     ELSE /\ cpc' = "done"
          /\ chatResult' = Thrown(ExhaustedError)
  /\ UNCHANGED <<resp, jitter, wait, chatLog>>

\* The HTTP statuses of error responses: 429, the ends of 500..599 and their
\* neighbours, and client errors.
ChatStatuses == {400, 429, 499, 500, 599, 600}

\* The error codes of error responses: none, the quota code and another
Codes == {UNDEFINED, Some("insufficient_quota"), Some("rate_limit_exceeded")}

\* The headers of error responses: none; each of the three alone, as a plain
\* count or a duration; all three.
ChatHeaders ==
  LET hv(t, ms) == [text |-> t, ms |-> ms]
      none == hv(UNDEFINED, 0)
  IN { NoHeaders,
       [NoHeaders EXCEPT !["retry-after"] = hv(Some(<<"2">>), 2000)],
       [NoHeaders EXCEPT !["x-ratelimit-reset-requests"] = hv(Some(<<"1", "m", "5", "s">>), 65000)],
       [NoHeaders EXCEPT !["x-ratelimit-reset-tokens"] = hv(Some(<<"4", "5", "s">>), 45000)],
       [NoHeaders EXCEPT !["x-ratelimit-reset-tokens"] = hv(Some(<<"2", ".", "5", "s">>), 2500)],
       [n \in HeaderNames |->
          CASE n = "retry-after" -> hv(Some(<<"1", ".", "5">>), 1500)
            [] n = "x-ratelimit-reset-requests" -> hv(Some(<<"1", "0", "0">>), 100000)
            [] OTHER -> hv(Some(<<"1", "H">>), 3600000)] }

\* Math.random() within a call: its least and greatest values
ChatJitter == {0, 999}

InitChat ==
  /\ cpc = "post"
  /\ attempt = 1
  /\ resp = NoResponse
  /\ jitter = 0
  /\ wait = 0
  /\ chatLog = <<>>
  /\ chatResult = NoResult

IdleChat ==
  /\ cpc = "idle"
  /\ attempt = 0
  /\ resp = NoResponse
  /\ jitter = 0
  /\ wait = 0
  /\ chatLog = <<>>
  /\ chatResult = NoResult

----------------------------------------------------------------------------
(* Validation (reviewer.js 19-37, 294-313) *)

\* What the conforming JSON values parse to: a comment on the second added
\* line of src/a.js with a suggestion, and a test; two comments on src/a.js,
\* the second without an ordinal, and a doc; no comment, a test and a doc;
\* three comments, with an ordinal past the added lines of src/a.js, on
\* README.md, and without an ordinal, a test and a doc; two comments on the
\* second and then the first added line of src/a.js, two tests and two docs.
TestFile == [path |-> <<"__tests__", "a.test.js">>, content |-> "t1"]
DocFile == [path |-> <<"docs", "a.md">>, content |-> "d1"]
TestFile2 == [path |-> <<"__tests__", "b.test.js">>, content |-> "t2"]
DocFile2 == [path |-> <<"docs", "b.md">>, content |-> "d2"]
Review(v) ==
  CASE v = "review1" ->
       [comments |-> << [path |-> <<"src", "a.js">>, line |-> Some(2),
                         body |-> "b1", suggestion |-> Some("s1")] >>,
        tests |-> << TestFile >>,
        docs |-> << >>]
    [] v = "review2" ->
       [comments |-> << [path |-> <<"src", "a.js">>, line |-> Some(1),
                         body |-> "b1", suggestion |-> UNDEFINED],
                       [path |-> <<"src", "a.js">>, line |-> UNDEFINED,
                         body |-> "b2", suggestion |-> UNDEFINED] >>,
        tests |-> << >>,
        docs |-> << DocFile >>]
    [] v = "review3" ->
       [comments |-> << >>,
        tests |-> << TestFile >>,
        docs |-> << DocFile >>]
    [] v = "review5" ->
       [comments |-> << [path |-> <<"src", "a.js">>, line |-> Some(2),
                         body |-> "b1", suggestion |-> UNDEFINED],
                       [path |-> <<"src", "a.js">>, line |-> Some(1),
                         body |-> "b2", suggestion |-> Some("s2")] >>,
        tests |-> << TestFile, TestFile2 >>,
        docs |-> << DocFile, DocFile2 >>]
    [] OTHER ->
       [comments |-> << [path |-> <<"src", "a.js">>, line |-> Some(3),
                         body |-> "b1", suggestion |-> UNDEFINED],
                       [path |-> <<"README.md">>, line |-> Some(1),
                         body |-> "b2", suggestion |-> Some("s2")],
                       [path |-> <<"src", "a.js">>, line |-> UNDEFINED,
                         body |-> "b3", suggestion |-> UNDEFINED] >>,
        tests |-> << TestFile >>,
        docs |-> << DocFile >>]

\* the first index from p on that holds no whitespace (Len + 1 when none)
RECURSIVE skipSpace(_, _)
skipSpace(text, p) ==
  IF p <= Len(text) /\ text[p] = SPACE THEN skipSpace(text, p + 1) ELSE p

\* the last index up to p that holds no whitespace (0 when none)
RECURSIVE skipSpaceBack(_, _)
skipSpaceBack(text, p) ==
  IF p >= 1 /\ text[p] = SPACE THEN skipSpaceBack(text, p - 1) ELSE p

\* JSON.parse: whitespace around one JSON value is allowed, anything else
\* throws (UNDEFINED)
jsonParse(text) ==
  LET first == skipSpace(text, 1)
      last == skipSpaceBack(text, Len(text))
  IN IF first = last /\ text[first] \in JsonTokens THEN Some(text[first]) ELSE UNDEFINED

\* SCHEMA.parse(JSON.parse(text)): the validated output, UNDEFINED when either throws
schemaParse(text) ==
  LET v == jsonParse(text)
  IN IF ~isUndefined(v) /\ valueOf(v) \in ConformingJson
     THEN Some(Review(valueOf(v)))
     ELSE UNDEFINED

\* the first index from p on that holds a fence marker (Len + 1 when none)
RECURSIVE nextFence(_, _)
nextFence(text, p) ==
  IF p <= Len(text) /\ text[p] # FENCE THEN nextFence(text, p + 1) ELSE p

\* The regex of line 298 tried from p on, leftmost match first: a marker,
\* the label when `labelled`, whitespace, then lazily up to the next marker.
\* Gives the captured group, or UNDEFINED when nothing matches.
RECURSIVE fenceRegex(_, _, _)
fenceRegex(text, p, labelled) ==
  LET open == nextFence(text, p)
      body == IF labelled THEN open + 2 ELSE open + 1
      close == nextFence(text, body)
  IN IF open > Len(text) THEN UNDEFINED
     ELSE IF /\ labelled => (open + 1 <= Len(text) /\ text[open + 1] = LABEL)
             /\ close <= Len(text)
          THEN Some(SubSeq(text, skipSpace(text, body), close - 1))
     ELSE fenceRegex(text, open + 1, labelled)

\* line 298: the labelled regex, or else the unlabelled one
fenceMatch(text) ==
  LET labelled == fenceRegex(text, 1, TRUE)
  IN IF ~isUndefined(labelled) THEN labelled ELSE fenceRegex(text, 1, FALSE)

\* firstParse without the fenced-block stage
firstParse_directOnly(text) == schemaParse(text)

\* lines 295-301: parsed after the direct parse and the fenced-block parse
firstParse(text) ==
  LET direct == schemaParse(text)
      fence == fenceMatch(text)
  IN IF ~isUndefined(direct) THEN direct
     ELSE IF ~isUndefined(fence) THEN schemaParse(valueOf(fence))
     ELSE UNDEFINED

\* the repair made whatever the earlier stages gave
repairNeeded_always(p) == TRUE

\* line 302: !parsed
repairNeeded(p) == isUndefined(p)

----------------------------------------------------------------------------
(* main (reviewer.js 200-313) *)

\* lines 11-17
Defaults ==
  [MAX_COMMENTS |-> 30, TESTS_ENABLED |-> TRUE, DOCS_ENABLED |-> TRUE,
   TARGET_GLOBS |-> << <<"src", "**">>, <<"lib", "**">> >>]

\* What .copilot-reviewer/config.json may hold: each key present or not.
NoConfig == [maxComments |-> UNDEFINED, testsEnabled |-> UNDEFINED,
             docsEnabled |-> UNDEFINED, targetGlobs |-> UNDEFINED]
Configs ==
  { UNDEFINED,                                        \* no file, or invalid JSON
    Some(NoConfig),                                   \* {}
    Some([NoConfig EXCEPT !.testsEnabled = Some(FALSE)]),
    Some([NoConfig EXCEPT !.docsEnabled = Some(FALSE), !.maxComments = Some(1)]),
    Some([NoConfig EXCEPT !.targetGlobs = Some(<< >>), !.maxComments = Some(0)]) }

\* lines 212-220
applyConfig(cfg) ==
  IF isUndefined(cfg) THEN Defaults
  ELSE LET c == valueOf(cfg)
       IN [MAX_COMMENTS |->
             IF noNumber(c.maxComments) THEN Defaults.MAX_COMMENTS
             ELSE valueOf(c.maxComments),
           TESTS_ENABLED |->
             IF isUndefined(c.testsEnabled) THEN Defaults.TESTS_ENABLED
             ELSE valueOf(c.testsEnabled),
           DOCS_ENABLED |->
             IF isUndefined(c.docsEnabled) THEN Defaults.DOCS_ENABLED
             ELSE valueOf(c.docsEnabled),
           TARGET_GLOBS |->
             IF isUndefined(c.targetGlobs) THEN Defaults.TARGET_GLOBS
             ELSE valueOf(c.targetGlobs)]

\* A path is the sequence of its segments, and a glob the sequence of its
\* segments' patterns: "**" stands for .* between two slashes or after the
\* last one, "*" for [^/]* as a whole segment.
RECURSIVE globTest(_, _)
globTest(glob, path) ==
  IF Len(glob) = 0 THEN Len(path) = 0
  ELSE IF Len(path) = 0 THEN FALSE
  ELSE IF glob[1] = "**"
       THEN globTest(Tail(glob), Tail(path)) \/ globTest(glob, Tail(path))
  ELSE (glob[1] = "*" \/ glob[1] = path[1]) /\ globTest(Tail(glob), Tail(path))

\* lines 146-149
pathMatchesAny(path, globs) ==
  Len(globs) = 0 \/ \E i \in 1..Len(globs) : globTest(globs[i], path)

\* lines 237-240: the file is left out of the review
skipped(f, globs) ==
  \/ noText(f.patch)
  \/ f.status = "removed"
  \/ f.filename[1] = ".github"
  \/ ~pathMatchesAny(f.filename, globs)

\* lines 236-245: patchByPath, in the order of the host's list
RECURSIVE patchesOf(_, _)
patchesOf(fs, globs) ==
  IF Len(fs) = 0 THEN << >>
  ELSE (IF skipped(fs[1], globs) THEN << >> ELSE << <<fs[1].filename, valueOf(fs[1].patch)>> >>)
       \o patchesOf(Tail(fs), globs)

ExamplePatch == join(<< <<"@", "@">>, <<" ", "a">>, <<"+", "a">>, <<"+", "a">> >>)

FileA == [filename |-> <<"src", "a.js">>, status |-> "modified", patch |-> Some(ExamplePatch)]
FileWorkflow == [filename |-> <<".github", "w.yml">>, status |-> "added", patch |-> Some(ExamplePatch)]
DocPatch == join(<< <<"@", "@">>, <<"+", "a">> >>)
FileDoc == [filename |-> <<"README.md">>, status |-> "modified", patch |-> Some(DocPatch)]
FileRemoved == [filename |-> <<"src", "old.js">>, status |-> "removed", patch |-> Some(ExamplePatch)]
FileLarge == [filename |-> <<"lib", "big.js">>, status |-> "modified", patch |-> UNDEFINED]

\* The lists of changed files the host may report.
FileLists ==
  { << FileA >>,
    << FileWorkflow, FileA, FileRemoved, FileLarge, FileDoc >>,
    << FileWorkflow, FileRemoved, FileLarge >>,
    << >> }

----------------------------------------------------------------------------
(* Flags, cap and comment dispatch (reviewer.js 315-345) *)

\* Array.prototype.slice(0, n) for n >= 0
slice(arr, n) == SubSeq(arr, 1, Min(Len(arr), n))

\* lines 316-318 with the tests flag ignored
respectFlagsAndCaps_testsKept(p, st) ==
  [comments |-> IF Len(p.comments) > st.MAX_COMMENTS
                THEN slice(p.comments, st.MAX_COMMENTS) ELSE p.comments,
   tests |-> p.tests,
   docs |-> IF ~st.DOCS_ENABLED THEN << >> ELSE p.docs]

\* lines 316-318: parsed after the flags and the cap, under the settings st
respectFlagsAndCaps(p, st) ==
  [comments |-> IF Len(p.comments) > st.MAX_COMMENTS
                THEN slice(p.comments, st.MAX_COMMENTS) ELSE p.comments,
   tests |-> IF ~st.TESTS_ENABLED THEN << >> ELSE p.tests,
   docs |-> IF ~st.DOCS_ENABLED THEN << >> ELSE p.docs]

\* Map.get of line 326: the last patch set for the path, or undefined
RECURSIVE mapGet(_, _)
mapGet(map, key) ==
  IF Len(map) = 0 THEN UNDEFINED
  ELSE IF map[Len(map)][1] = key THEN Some(map[Len(map)][2])
  ELSE mapGet(SubSeq(map, 1, Len(map) - 1), key)

\* !c.suggestion: undefined or the empty string
noString(t) == isUndefined(t) \/ valueOf(t) = ""

\* line 330: the suggestion block, when there is a suggestion
suggestionBlock(c) == IF noString(c.suggestion) THEN UNDEFINED ELSE c.suggestion

\* line 331 without the ordinal
bullet_noOrdinal(c) ==
  [path |-> c.path, line |-> UNDEFINED, body |-> c.body, suggestion |-> suggestionBlock(c)]

\* line 331: the bullet of a comment, by its parts
bullet(c) ==
  [path |-> c.path,
   line |-> IF noNumber(c.line) THEN UNDEFINED ELSE c.line,
   body |-> c.body,
   suggestion |-> suggestionBlock(c)]

\* line 328 resolving every ordinal against the patch of the first in-scope file
resolve_firstPatch(c, map) ==
  IF noNumber(c.line) THEN UNDEFINED
  ELSE positionFromNthAdded(IF Len(map) = 0 THEN UNDEFINED ELSE Some(map[1][2]), c.line)

\* lines 326-328: pos
resolve(c, map) ==
  IF noNumber(c.line) THEN UNDEFINED
  ELSE positionFromNthAdded(mapGet(map, c.path), c.line)

\* lines 334-340: the entry pushed for a comment with a position
inlineComment(c, pos) ==
  [path |-> c.path, position |-> valueOf(pos),
   body |-> [text |-> c.body, suggestion |-> suggestionBlock(c)]]

\* lines 324-341: inlineComments
RECURSIVE inlineOf(_, _)
inlineOf(comments, map) ==
  IF Len(comments) = 0 THEN << >>
  ELSE LET c == comments[1]
           pos == resolve(c, map)
       IN (IF noNumber(pos) THEN << >> ELSE << inlineComment(c, pos) >>)
          \o inlineOf(Tail(comments), map)

\* lines 324-341: fallbackSnippets
snippetsOf(comments) == [i \in 1..Len(comments) |-> bullet(comments[i])]

----------------------------------------------------------------------------
(* Publication (reviewer.js 343-413) *)

\* line 207: the head commit of the pull request, read at the start of the run
headSha == "head"

\* What the host gives back for a tree and a commit it created.
baseTree == "tree of head"
newTree == "new tree"
newCommit == "new commit"

\* the sha the host gives the blob of a content
blobSha(text) == <<"blob of", text>>

\* A call to the host and the host's reply, as logged.
HostCall(name, arg) == [call |-> name, arg |-> arg]
HostReply(status) == [call |-> "reply", arg |-> status]

\* lines 378-385 with the docs taken before the tests
filesOf_docsFirst(out) == out.docs \o out.tests

\* lines 378-385: the files of which blobs are made, tests first
filesOf(out) == out.tests \o out.docs

\* line 390
treeEntries(bl) ==
  [i \in 1..Len(bl) |-> [path |-> bl[i].path, mode |-> "100644", type |-> "blob",
                          sha |-> bl[i].sha]]

\* line 363 with the tests and docs left out after a review that was not posted
stageAfterReview_commitOnlyIfPosted(posted, snip, out) ==
  IF ~posted /\ Len(snip) > 0 THEN "fallback"
  ELSE IF posted /\ (Len(out.tests) > 0 \/ Len(out.docs) > 0) THEN "blob"
  ELSE "done"

\* line 363 with the fallback comment published whenever there are snippets
stageAfterReview_bothChannels(posted, snip, out) ==
  IF Len(snip) > 0 THEN "fallback"
  ELSE IF Len(out.tests) > 0 \/ Len(out.docs) > 0 THEN "blob"
  ELSE "done"

\* lines 363, 375, 413: the host call main awaits next once the inline review
\* is over, or "done"
stageAfterReview(posted, snip, out) ==
  IF ~posted /\ Len(snip) > 0 THEN "fallback"
  ELSE IF Len(out.tests) > 0 \/ Len(out.docs) > 0 THEN "blob"
  ELSE "done"

\* line 345 with the inline review attempted for every output with comments
stageAfterDispatch_alwaysReview(inl, snip, out) ==
  IF Len(snip) > 0 THEN "review" ELSE stageAfterReview(FALSE, snip, out)

\* line 345: the host call main awaits next after the dispatch loop
stageAfterDispatch(inl, snip, out) ==
  IF Len(inl) > 0 THEN "review" ELSE stageAfterReview(FALSE, snip, out)

\* line 404 with the update forced
updateRefCall_forced ==
  HostCall("updateRef", [ref |-> "heads/headRef", sha |-> newCommit, force |-> TRUE])

\* lines 400-405
updateRefCall ==
  HostCall("updateRef", [ref |-> "heads/headRef", sha |-> newCommit, force |-> FALSE])

\* The call main makes on reaching a stage: lines 347-352, 369-371, 379 and
\* 383, 387, 388-391, 393-398, 400-405, 407-410.
callOf(stage, inl, snip, out, bl) ==
  CASE stage = "review" ->
       << HostCall("createReview", [event |-> "COMMENT", comments |-> inl]) >>
    [] stage = "fallback" ->
       << HostCall("createComment", [kind |-> "fallback", snippets |-> snip]) >>
    [] stage = "blob" ->
       << HostCall("createBlob", [content |-> filesOf(out)[Len(bl) + 1].content]) >>
    [] stage = "getCommit" ->
       << HostCall("getCommit", [commit_sha |-> headSha]) >>
    [] stage = "tree" ->
       << HostCall("createTree", [base_tree |-> baseTree, tree |-> treeEntries(bl)]) >>
    [] stage = "commit" ->
       << HostCall("createCommit", [tree |-> newTree, parents |-> <<headSha>>]) >>
    [] stage = "ref" -> << updateRefCall >>
    [] stage = "pushed" ->
       << HostCall("createComment", [kind |-> "pushed", snippets |-> << >>]) >>
    [] OTHER -> << >>

\* main goes on to a stage: the stage's call is made and awaited
enter(stage, log, inl, snip, out, bl) ==
  /\ mpc' = stage
  /\ hostLog' = log \o callOf(stage, inl, snip, out, bl)

\* lines 316-347: the validated output p goes through the flags, the cap and
\* the dispatch loop, up to the first host call
validatedThen(p) ==
  LET out == respectFlagsAndCaps(p, settings)
      inl == inlineOf(out.comments, patchByPath)
      snip == snippetsOf(out.comments)
  IN /\ output' = Some(out)
     /\ inlineComments' = inl
     /\ fallbackSnippets' = snip
     /\ inlinePosted' = FALSE
     /\ enter(stageAfterDispatch(inl, snip, out), hostLog, inl, snip, out, << >>)
     /\ UNCHANGED <<blobs, branch>>

\* process.exit(1) of lines 417-420
exit1 ==
  /\ mpc' = "exit1"
  /\ UNCHANGED <<config, settings, files, patchByPath, chatCalls, earlierRequests, content, repaired, parsed>>

InitMain ==
  /\ mpc = "start"
  /\ config = UNDEFINED
  /\ settings = Defaults
  /\ files = << >>
  /\ patchByPath = << >>
  /\ chatCalls = 0
  /\ earlierRequests = 0
  /\ content = << >>
  /\ repaired = << >>
  /\ parsed = UNDEFINED
  /\ output = UNDEFINED
  /\ inlineComments = << >>
  /\ fallbackSnippets = << >>
  /\ inlinePosted = FALSE
  /\ blobs = << >>
  /\ hostLog = << >>
  /\ branch = headSha

IdleMain ==
  /\ mpc = "idle"
  /\ config = UNDEFINED
  /\ settings = Defaults
  /\ files = << >>
  /\ patchByPath = << >>
  /\ chatCalls = 0
  /\ earlierRequests = 0
  /\ content = << >>
  /\ repaired = << >>
  /\ parsed = UNDEFINED
  /\ output = UNDEFINED
  /\ inlineComments = << >>
  /\ fallbackSnippets = << >>
  /\ inlinePosted = FALSE
  /\ blobs = << >>
  /\ hostLog = << >>
  /\ branch = headSha

\* lines 202-208: the context is read and the pull request fetched
MainGetPull ==
  /\ mpc = "start"
  /\ mpc' = "config"
  /\ UNCHANGED <<config, settings, files, patchByPath, chatCalls, earlierRequests, content, repaired, parsed>>
  /\ UNCHANGED dispatchVars
  /\ UNCHANGED chatVars

\* lines 202-206, 226: githubContextFromEnv throws, or a host call that main
\* does not guard is rejected
MainHostError ==
  /\ mpc \in {"start", "files"}
  /\ exit1
  /\ UNCHANGED dispatchVars
  /\ UNCHANGED chatVars

\* lines 211-221: the configuration, if any, is applied
MainLoadConfig ==
  /\ mpc = "config"
  /\ \E cfg \in Configs :
       /\ config' = cfg
       /\ settings' = applyConfig(cfg)
  /\ mpc' = "files"
  /\ UNCHANGED <<files, patchByPath, chatCalls, earlierRequests, content, repaired, parsed>>
  /\ UNCHANGED dispatchVars
  /\ UNCHANGED chatVars

\* lines 224-292: the files are listed and filtered; with no eligible diff the
\* run ends, otherwise the prompt is built and openaiChat is called
MainListFiles ==
  /\ mpc = "files"
  /\ \E fs \in FileLists :
       /\ files' = fs
       /\ patchByPath' = patchesOf(fs, settings.TARGET_GLOBS)
       /\ IF patchesOf(fs, settings.TARGET_GLOBS) = << >>
          THEN /\ mpc' = "done"
               /\ UNCHANGED chatCalls
               /\ UNCHANGED chatVars
          ELSE /\ mpc' = "chat1"
               /\ chatCalls' = chatCalls + 1
               /\ chatEntered
  /\ UNCHANGED earlierRequests
  /\ UNCHANGED <<config, settings, content, repaired, parsed>>
  /\ UNCHANGED dispatchVars

\* line 79, counted over one call of openaiChat: the requests it sent
requestsSent(log) == Cardinality({ i \in DOMAIN log : log[i].ev = "request" })

\* lines 292-347: the first call's outcome. An error ends the run; a text is
\* parsed directly, then by its fenced block, and when neither gives a
\* validated output openaiChat is called again with the repair messages;
\* otherwise main goes on with the validated output.
MainFirstReply ==
  /\ mpc = "chat1"
  /\ cpc = "done"
  /\ IF chatResult.kind = "thrown"
     THEN /\ exit1
          /\ cpc' = "idle"
          /\ UNCHANGED <<attempt, resp, jitter, wait, chatLog, chatResult>>
          /\ UNCHANGED dispatchVars
     ELSE \E validated \in { firstParse(chatResult.text) } :
          /\ content' = chatResult.text
          /\ IF repairNeeded(validated)
             THEN /\ mpc' = "chat2"
                  /\ chatCalls' = chatCalls + 1
                  /\ earlierRequests' = requestsSent(chatLog)
                  /\ chatEntered
                  /\ UNCHANGED parsed
                  /\ UNCHANGED dispatchVars
             ELSE /\ parsed' = validated
                  /\ validatedThen(valueOf(validated))
                  /\ cpc' = "idle"
                  /\ UNCHANGED <<attempt, resp, jitter, wait, chatLog, chatResult>>
                  /\ UNCHANGED <<chatCalls, earlierRequests>>
          /\ UNCHANGED <<config, settings, files, patchByPath, repaired>>

\* MainRepairReply with the fenced-block stage applied to the repair text too
repairParse_withFence(text) == firstParse(text)

\* line 311: the repair text is parsed directly only
repairParse(text) == schemaParse(text)

\* MainRepairReply asking for a repair once more when the repair text does not
\* parse to a conforming output
MainRepairReply_repairsAgain ==
  /\ mpc = "chat2"
  /\ cpc = "done"
  /\ IF chatResult.kind = "thrown"
     THEN /\ exit1
          /\ cpc' = "idle"
          /\ UNCHANGED <<attempt, resp, jitter, wait, chatLog, chatResult>>
          /\ UNCHANGED dispatchVars
     ELSE \E validated \in { repairParse(chatResult.text) } :
          /\ repaired' = chatResult.text
          /\ parsed' = validated
          /\ IF isUndefined(validated)
             THEN /\ mpc' = IF chatCalls < 3 THEN "chat2" ELSE "exit1"
                  /\ chatCalls' = chatCalls + 1
                  /\ earlierRequests' = earlierRequests + requestsSent(chatLog)
                  /\ chatEntered
                  /\ UNCHANGED dispatchVars
             ELSE /\ validatedThen(valueOf(validated))
                  /\ cpc' = "idle"
                  /\ UNCHANGED <<attempt, resp, jitter, wait, chatLog, chatResult>>
                  /\ UNCHANGED <<chatCalls, earlierRequests>>
          /\ UNCHANGED <<config, settings, files, patchByPath, content>>

\* lines 310-347: the repair call's outcome. An error ends the run, and so
\* does a text that does not parse to a conforming output: line 311 throws
\* out of main.
MainRepairReply ==
  /\ mpc = "chat2"
  /\ cpc = "done"
  /\ cpc' = "idle"
  /\ UNCHANGED <<attempt, resp, jitter, wait, chatLog, chatResult>>
  /\ IF chatResult.kind = "thrown"
     THEN /\ exit1
          /\ UNCHANGED dispatchVars
     ELSE \E validated \in { repairParse(chatResult.text) } :
          /\ repaired' = chatResult.text
          /\ parsed' = validated
          /\ IF isUndefined(validated)
             THEN /\ mpc' = "exit1"
                  /\ UNCHANGED dispatchVars
             ELSE validatedThen(valueOf(validated))
          /\ UNCHANGED <<config, settings, files, patchByPath, chatCalls, earlierRequests, content>>

\* What main leaves alone from line 343 on.
validationVars == <<config, settings, files, patchByPath, chatCalls, earlierRequests, content, repaired, parsed>>

\* The statuses with which the host may refuse the inline review.
ReviewRefusals == {422, 500}

\* a host call that main does not guard is refused: the error leaves main
hostRefuses(st) ==
  /\ mpc' = "exit1"
  /\ hostLog' = Append(hostLog, HostReply(st))
  /\ UNCHANGED <<output, inlineComments, fallbackSnippets, inlinePosted, blobs, branch>>

\* MainReviewReply with the catch of line 354 taking the 422 rejection only
MainReviewReply_only422Caught ==
  /\ mpc = "review"
  /\ \/ \E st \in {200, 422} :
          /\ inlinePosted' = (st = 200)
          /\ enter(stageAfterReview(st = 200, fallbackSnippets, valueOf(output)),
                   Append(hostLog, HostReply(st)),
                   inlineComments, fallbackSnippets, valueOf(output), blobs)
          /\ UNCHANGED <<output, inlineComments, fallbackSnippets, blobs, branch>>
     \/ hostRefuses(500)
  /\ UNCHANGED validationVars
  /\ UNCHANGED chatVars

\* lines 347-375: the host's reply to createReview. Every refusal is caught
\* (lines 354-360) and leaves inlinePosted false.
MainReviewReply ==
  /\ mpc = "review"
  /\ \E st \in {200} \cup ReviewRefusals :
       /\ inlinePosted' = (st = 200)
       /\ enter(stageAfterReview(st = 200, fallbackSnippets, valueOf(output)),
                Append(hostLog, HostReply(st)),
                inlineComments, fallbackSnippets, valueOf(output), blobs)
  /\ UNCHANGED <<output, inlineComments, fallbackSnippets, blobs, branch>>
  /\ UNCHANGED validationVars
  /\ UNCHANGED chatVars

\* lines 369-375: the fallback comment is published
MainFallbackReply ==
  /\ mpc = "fallback"
  /\ \/ /\ enter(IF Len(filesOf(valueOf(output))) > 0 THEN "blob" ELSE "done",
                 Append(hostLog, HostReply(201)),
                 inlineComments, fallbackSnippets, valueOf(output), blobs)
        /\ UNCHANGED <<output, inlineComments, fallbackSnippets, inlinePosted, blobs, branch>>
     \/ hostRefuses(500)
  /\ UNCHANGED validationVars
  /\ UNCHANGED chatVars

\* lines 378-387: a blob is created; the next one is asked for, or after the
\* last one the head commit
MainBlobReply ==
  /\ mpc = "blob"
  /\ \/ LET f == filesOf(valueOf(output))[Len(blobs) + 1]
            bl == Append(blobs, [path |-> f.path, sha |-> blobSha(f.content)])
        IN /\ blobs' = bl
           /\ enter(IF Len(bl) < Len(filesOf(valueOf(output))) THEN "blob" ELSE "getCommit",
                    Append(hostLog, HostReply(201)),
                    inlineComments, fallbackSnippets, valueOf(output), bl)
           /\ UNCHANGED <<output, inlineComments, fallbackSnippets, inlinePosted, branch>>
     \/ hostRefuses(500)
  /\ UNCHANGED validationVars
  /\ UNCHANGED chatVars

\* the stage that follows "getCommit", "tree" and "commit"
stageAfter(stage) ==
  CASE stage = "getCommit" -> "tree"
    [] stage = "tree" -> "commit"
    [] stage = "commit" -> "ref"

\* lines 387-400: the head commit is read, the tree is created, the commit
\* is created
MainGitReply ==
  /\ mpc \in {"getCommit", "tree", "commit"}
  /\ \/ /\ enter(stageAfter(mpc),
                 Append(hostLog, HostReply(IF mpc = "getCommit" THEN 200 ELSE 201)),
                 inlineComments, fallbackSnippets, valueOf(output), blobs)
        /\ UNCHANGED <<output, inlineComments, fallbackSnippets, inlinePosted, blobs, branch>>
     \/ hostRefuses(500)
  /\ UNCHANGED validationVars
  /\ UNCHANGED chatVars

\* What the host does with an update of the branch: the branch is moved when
\* the update is forced or is a fast-forward, which a commit on headSha is
\* while the branch still points to headSha; otherwise the update is refused
\* with status 422.
hostAccepts(call) == call.arg.force \/ branch = headSha

\* lines 400-407: the host's reply to updateRef
MainRefReply ==
  /\ mpc = "ref"
  /\ \/ /\ hostAccepts(hostLog[Len(hostLog)])
        /\ branch' = hostLog[Len(hostLog)].arg.sha
        /\ enter("pushed", Append(hostLog, HostReply(200)),
                 inlineComments, fallbackSnippets, valueOf(output), blobs)
        /\ UNCHANGED <<output, inlineComments, fallbackSnippets, inlinePosted, blobs>>
     \/ /\ ~hostAccepts(hostLog[Len(hostLog)])
        /\ hostRefuses(422)
     \/ hostRefuses(500)
  /\ UNCHANGED validationVars
  /\ UNCHANGED chatVars

\* lines 407-413: the comment on the push is published and main returns
MainPushedReply ==
  /\ mpc = "pushed"
  /\ \/ /\ enter("done", Append(hostLog, HostReply(201)),
                 inlineComments, fallbackSnippets, valueOf(output), blobs)
        /\ UNCHANGED <<output, inlineComments, fallbackSnippets, inlinePosted, blobs, branch>>
     \/ hostRefuses(500)
  /\ UNCHANGED validationVars
  /\ UNCHANGED chatVars

\* Someone else pushes to the branch of the pull request while main runs.
BranchMoves ==
  /\ mpc \notin {"idle", "start", "done", "exit1"}
  /\ branch = headSha
  /\ branch' = "pushed by another"
  /\ UNCHANGED <<mpc, output, inlineComments, fallbackSnippets, inlinePosted, blobs, hostLog>>
  /\ UNCHANGED validationVars
  /\ UNCHANGED chatVars

\* The responses the service gives within a run: a rate limit, a client
\* error, with or without the quota code, and no rate-limit headers.
MainStatuses == {400, 429}
MainCodes == {UNDEFINED, Some("insufficient_quota")}
MainHeaders == {NoHeaders}
MainJitter == {500}

----------------------------------------------------------------------------
(* Specifications *)

NextIndexer ==
  \/ IndexerBuild /\ UNCHANGED <<waitVars, chatVars, mainVars>>
  \/ IndexerResolve /\ UNCHANGED <<waitVars, chatVars, mainVars>>

IndexerCalled == InitIndexer /\ IdleWait /\ IdleChat /\ IdleMain

SpecIndexer == IndexerCalled /\ [][NextIndexer]_vars

NextWait == ComputeWaits /\ UNCHANGED <<indexerVars, chatVars, mainVars>>

WaitCalled == InitWait /\ IdleIndexer /\ IdleChat /\ IdleMain

SpecWait == WaitCalled /\ [][NextWait]_vars

\* One call of openaiChat, every response the service can give
NextChat ==
  \/ ChatRequest /\ UNCHANGED <<indexerVars, waitVars, mainVars>>
  \/ ChatSuccess(Contents) /\ UNCHANGED <<indexerVars, waitVars, mainVars>>
  \/ ChatEmptyContent /\ UNCHANGED <<indexerVars, waitVars, mainVars>>
  \/ ChatNoResponse /\ UNCHANGED <<indexerVars, waitVars, mainVars>>
  \/ ChatErrorResponse(ChatStatuses, Codes, ChatHeaders, ChatJitter)
       /\ UNCHANGED <<indexerVars, waitVars, mainVars>>
  \/ ChatSleepDone /\ UNCHANGED <<indexerVars, waitVars, mainVars>>

ChatCalled == InitChat /\ IdleIndexer /\ IdleWait /\ IdleMain

SpecChat == ChatCalled /\ [][NextChat]_vars

\* One run of main
NextMain ==
  \/ MainGetPull /\ UNCHANGED <<indexerVars, waitVars>>
  \/ MainHostError /\ UNCHANGED <<indexerVars, waitVars>>
  \/ MainLoadConfig /\ UNCHANGED <<indexerVars, waitVars>>
  \/ MainListFiles /\ UNCHANGED <<indexerVars, waitVars>>
  \/ MainFirstReply /\ UNCHANGED <<indexerVars, waitVars>>
  \/ MainRepairReply /\ UNCHANGED <<indexerVars, waitVars>>
  \/ MainReviewReply /\ UNCHANGED <<indexerVars, waitVars>>
  \/ MainFallbackReply /\ UNCHANGED <<indexerVars, waitVars>>
  \/ MainBlobReply /\ UNCHANGED <<indexerVars, waitVars>>
  \/ MainGitReply /\ UNCHANGED <<indexerVars, waitVars>>
  \/ MainRefReply /\ UNCHANGED <<indexerVars, waitVars>>
  \/ MainPushedReply /\ UNCHANGED <<indexerVars, waitVars>>
  \/ BranchMoves /\ UNCHANGED <<indexerVars, waitVars>>
  \/ ChatRequest /\ UNCHANGED <<indexerVars, waitVars, mainVars>>
  \/ ChatSuccess(Contents) /\ UNCHANGED <<indexerVars, waitVars, mainVars>>
  \/ ChatEmptyContent /\ UNCHANGED <<indexerVars, waitVars, mainVars>>
  \/ ChatNoResponse /\ UNCHANGED <<indexerVars, waitVars, mainVars>>
  \/ ChatErrorResponse(MainStatuses, MainCodes, MainHeaders, MainJitter)
       /\ UNCHANGED <<indexerVars, waitVars, mainVars>>
  \/ ChatSleepDone /\ UNCHANGED <<indexerVars, waitVars, mainVars>>

MainStarted == InitMain /\ IdleChat /\ IdleIndexer /\ IdleWait

Spec == MainStarted /\ [][NextMain]_vars

\* The inputs of the runs whose termination is checked: the service and the
\* host answer as in NextMain; the configurations, the file listings and the
\* completion texts are fewer.
FairConfigs == { UNDEFINED, Some([NoConfig EXCEPT !.testsEnabled = Some(FALSE)]) }
FairFileLists ==
  { << FileWorkflow, FileA, FileRemoved, FileLarge, FileDoc >>, << >> }
FairContents ==
  { <<"review1">>, <<"review4">>, <<FENCE, LABEL, SPACE, "review1", SPACE, FENCE>>,
    <<"other">>, <<PROSE>> }

\* A step of the run itself: a host call or a completion request returning,
\* or a backoff sleep ending (every await of lines 82, 98 and 206-410)
RunStep ==
  \/ MainGetPull /\ UNCHANGED <<indexerVars, waitVars>>
  \/ MainHostError /\ UNCHANGED <<indexerVars, waitVars>>
  \/ MainLoadConfig /\ config' \in FairConfigs /\ UNCHANGED <<indexerVars, waitVars>>
  \/ MainListFiles /\ files' \in FairFileLists /\ UNCHANGED <<indexerVars, waitVars>>
  \/ MainFirstReply /\ UNCHANGED <<indexerVars, waitVars>>
  \/ MainRepairReply /\ UNCHANGED <<indexerVars, waitVars>>
  \/ MainReviewReply /\ UNCHANGED <<indexerVars, waitVars>>
  \/ MainFallbackReply /\ UNCHANGED <<indexerVars, waitVars>>
  \/ MainBlobReply /\ UNCHANGED <<indexerVars, waitVars>>
  \/ MainGitReply /\ UNCHANGED <<indexerVars, waitVars>>
  \/ MainRefReply /\ UNCHANGED <<indexerVars, waitVars>>
  \/ MainPushedReply /\ UNCHANGED <<indexerVars, waitVars>>
  \/ ChatRequest /\ UNCHANGED <<indexerVars, waitVars, mainVars>>
  \/ ChatSuccess(FairContents) /\ UNCHANGED <<indexerVars, waitVars, mainVars>>
  \/ ChatEmptyContent /\ UNCHANGED <<indexerVars, waitVars, mainVars>>
  \/ ChatNoResponse /\ UNCHANGED <<indexerVars, waitVars, mainVars>>
  \/ ChatErrorResponse(MainStatuses, MainCodes, MainHeaders, MainJitter)
       /\ UNCHANGED <<indexerVars, waitVars, mainVars>>
  \/ ChatSleepDone /\ UNCHANGED <<indexerVars, waitVars, mainVars>>

\* One run of main, and the others who may push to the branch meanwhile
NextFair ==
  \/ RunStep
  \/ BranchMoves /\ UNCHANGED <<indexerVars, waitVars>>

\* One run of main in which every awaited call and sleep eventually returns.
\* Nothing is asked of the others who may push to the branch.
SpecFair == MainStarted /\ [][NextFair]_vars /\ WF_vars(RunStep)

----------------------------------------------------------------------------
(* Properties of the diff position indexer, under SpecIndexer *)

\* The rows of a patch that are additions: the lines whose first character
\* is "+" and whose first three are not "+++".
AdditionRows(lines) ==
  { i \in 1..Len(lines) :
      /\ Len(lines[i]) >= 1
      /\ lines[i][1] = "+"
      /\ ~(Len(lines[i]) >= 3 /\ lines[i][2] = "+" /\ lines[i][3] = "+") }

\* the row of the k-th addition, for 1 <= k <= the number of additions
NthAdditionRow(lines, k) ==
  CHOOSE i \in AdditionRows(lines) :
    Cardinality({ j \in AdditionRows(lines) : j <= i }) = k

\* the patch "@@ header / context / +line1 / +line2"
ExampleLines == << <<"@", "@">>, <<" ", "a">>, <<"+", "a">>, <<"+", "a">> >>

\* C1: positionFromNthAdded(P, k) is the 1-based row, counted over every line
\* of P, of the k-th addition line when 1 <= k <= the number of addition
\* lines, and undefined when k is missing, k <= 0, k exceeds that number or P
\* is empty; for the example patch k = 2 gives 4 and k = 3 gives undefined.
C1_PositionOfNthAdded ==
  ipc = "resolved" =>
    LET rows == AdditionRows(patchLines)
        inRange == /\ ~isUndefined(addedIndex)
                   /\ valueOf(addedIndex) >= 1
                   /\ valueOf(addedIndex) <= Cardinality(rows)
    IN /\ inRange => position = Some(NthAdditionRow(patchLines, valueOf(addedIndex)))
       /\ ~inRange => position = UNDEFINED
       /\ (patchLines = ExampleLines /\ addedIndex = Some(2)) => position = Some(4)
       /\ (patchLines = ExampleLines /\ addedIndex = Some(3)) => position = UNDEFINED

C1_Witness ==
  /\ ipc = "resolved"
  /\ patchLines = ExampleLines
  /\ addedIndex = Some(2)
  /\ position = Some(4)

\* C2: the sequence buildAddedLinePositions(P) returns is strictly increasing
\* and as long as P has addition lines.
C2_PositionsIncreasingAndComplete ==
  ipc \in {"built", "resolved"} =>
    /\ \A i \in 1..(Len(positions) - 1) : positions[i] < positions[i + 1]
    /\ Len(positions) = Cardinality(AdditionRows(patchLines))

C2_Witness ==
  /\ ipc = "built"
  /\ Len(positions) = 2
  /\ \E i \in 1..Len(patchLines) : patchLines[i] = <<"+", "+", "+", "a">>

----------------------------------------------------------------------------
(* Properties of one openaiChat call, under SpecChat *)

\* the places of the call's log that hold an event of this kind
Events(kind) == { i \in DOMAIN chatLog : chatLog[i].ev = kind }

\* 429, or a status in 500..599
RetryableStatus(st) ==
  /\ ~isUndefined(st)
  /\ (valueOf(st) = 429 \/ valueOf(st) \in 500..599)

\* At most 6 requests are sent, and each request but the first comes after a
\* failure with status 429 or 5xx, with no other request in between.
AttemptsBounded ==
  /\ Cardinality(Events("request")) <= 6
  /\ \A i \in Events("request") :
       i > 1 =>
         \E j \in Events("failure") :
           /\ j < i
           /\ RetryableStatus(chatLog[j].status)
           /\ \A k \in Events("request") : ~(j < k /\ k < i)

\* all 6 attempts have failed, each with status 429 or 5xx
AllSixFailedRetryably ==
  /\ Cardinality(Events("failure")) = 6
  /\ \A j \in Events("failure") : RetryableStatus(chatLog[j].status)

\* the call is in its last backoff sleep or has thrown the retries-exhausted error
EndsExhausted ==
  /\ chatResult.kind # "returned"
  /\ \/ cpc = "sleep" /\ chatResult = NoResult
     \/ cpc = "done" /\ chatResult = Thrown(ExhaustedError)

\* C3 as stated: at most 6 requests, each further one only after a failure
\* with status 429 or 5xx, and when all 6 attempts fail with such a status the
\* call ends with the retries-exhausted error and returns no text.
C3_Stated_ExhaustedAfterSixRetryable ==
  /\ AttemptsBounded
  /\ AllSixFailedRetryably => EndsExhausted

\* C3 as amended: the same, for 6 failures none of which carries the code
\* insufficient_quota.
C3_ExhaustedAfterSixRetryableNoQuota ==
  /\ AttemptsBounded
  /\ (AllSixFailedRetryably /\ \A j \in Events("failure") : ~chatLog[j].quota)
       => EndsExhausted

C3_Witness ==
  /\ cpc = "done"
  /\ chatResult = Thrown(ExhaustedError)
  /\ Cardinality(Events("request")) = 6
  /\ \E j \in Events("failure") : chatLog[j].status = Some(429)
  /\ \E j \in Events("failure") : chatLog[j].status = Some(599)

\* C4: a failure that carries the code insufficient_quota ends the call at
\* once with the quota error, whatever its status and attempt: nothing
\* follows it in the log (no sleep, no request).
C4_QuotaFailsAtOnce ==
  \A i \in Events("failure") :
    chatLog[i].quota =>
      /\ i = Len(chatLog)
      /\ cpc = "done"
      /\ chatResult = Thrown(QuotaError)

C4_Witness ==
  /\ Cardinality(Events("request")) = 3
  /\ chatLog[Len(chatLog)].ev = "failure"
  /\ chatLog[Len(chatLog)].quota
  /\ chatLog[Len(chatLog)].status = Some(429)
  /\ chatResult = Thrown(QuotaError)

\* the failure at place i of the log has a status, neither 429 nor in 500..599
FatalStatusAt(i) ==
  /\ ~isUndefined(chatLog[i].status)
  /\ ~RetryableStatus(chatLog[i].status)

\* the failure at place i ended the call, which threw the request's own error
PropagatedAt(i) ==
  /\ i = Len(chatLog)
  /\ cpc = "done"
  /\ chatResult = Thrown(AxiosError(valueOf(resp.status), resp.code))
  /\ resp.status = chatLog[i].status

\* C5 as stated: a failure with a status that is neither 429 nor 5xx ends the
\* call at once by propagating that error: no sleep and no request follow.
C5_Stated_FatalStatusPropagates ==
  \A i \in Events("failure") : FatalStatusAt(i) => PropagatedAt(i)

\* C5 as amended: the same, for a failure that does not carry the code
\* insufficient_quota.
C5_FatalStatusNoQuotaPropagates ==
  \A i \in Events("failure") :
    (FatalStatusAt(i) /\ ~chatLog[i].quota) => PropagatedAt(i)

C5_Witness ==
  /\ Cardinality(Events("request")) = 2
  /\ chatLog[Len(chatLog)].ev = "failure"
  /\ chatLog[Len(chatLog)].status = Some(400)
  /\ chatResult = Thrown(AxiosError(400, UNDEFINED))

\* C6: when n attempts fail with 429 or 5xx and the next one succeeds, n <= 5,
\* exactly n sleeps and n + 1 requests have occurred, each sleep right after
\* a failed attempt and right before the next request, and the call returns
\* the content of the successful response as it is.
C6_RetriesThenSuccess ==
  chatResult.kind = "returned" =>
    LET n == Cardinality(Events("failure"))
    IN /\ n <= 5
       /\ \A j \in Events("failure") : RetryableStatus(chatLog[j].status)
       /\ Cardinality(Events("sleep")) = n
       /\ Cardinality(Events("request")) = n + 1
       /\ \A i \in Events("sleep") :
            /\ i > 1 /\ chatLog[i - 1].ev = "failure"
            /\ i < Len(chatLog) /\ chatLog[i + 1].ev = "request"
       /\ chatLog[Len(chatLog)].ev = "success"
       /\ resp.content = Some(chatResult.text)

\* the service answers 429 twice, then succeeds
C6_Witness ==
  /\ chatResult.kind = "returned"
  /\ Cardinality(Events("sleep")) = 2
  /\ \A j \in Events("failure") : chatLog[j].status = Some(429)
  /\ chatResult.text = <<FENCE, LABEL, SPACE, "review1", SPACE, FENCE>>

\* the largest of a set of numbers
Largest(S) == CHOOSE m \in S : \A x \in S : m >= x

\* the exponential term of attempts 1..6, in seconds
ExpSeconds == <<1, 2, 4, 8, 16, 32>>

\* C8: the wait before a retry is the largest of the three header values
\* sent with the failed response (0 for a missing header) and of the
\* exponential term 1, 2, 4, 8, 16, 32 s of the attempt plus the jitter; so
\* it is shorter than none of them.
C8_WaitIsLargestOfHeadersAndExponential ==
  cpc = "sleep" =>
    LET sent == resp.sent
        exp == ExpSeconds[attempt] * 1000
    IN /\ wait = Largest({ sent[n].ms : n \in HeaderNames } \cup {exp + jitter})
       /\ \A n \in HeaderNames : wait >= sent[n].ms
       /\ wait >= exp

----------------------------------------------------------------------------
(* Properties of waitSecondsFrom, under SpecWait *)

----------------------------------------------------------------------------
(* Properties of the validation stage of a run, under Spec *)

\* the text without its whitespace
NonSpace(text) == SelectSeq(text, LAMBDA t : t # SPACE)

\* the text is valid JSON that conforms to the schema
IsConformingJson(text) ==
  Len(NonSpace(text)) = 1 /\ NonSpace(text)[1] \in ConformingJson

\* what such a text validates to
OutputOf(text) == Review(NonSpace(text)[1])

Markers(text) == { i \in DOMAIN text : text[i] = FENCE }

\* The fenced code blocks of a text: the contents between the 1st and 2nd
\* marker, the 3rd and 4th, and so on, without the label json if there is one.
FencedBlocks(text) ==
  { SubSeq(text, IF a + 1 < b /\ text[a + 1] = LABEL THEN a + 2 ELSE a + 1, b - 1) :
      <<a, b>> \in { m \in Markers(text) \X Markers(text) :
                      /\ m[1] < m[2]
                      /\ \A k \in Markers(text) : ~(m[1] < k /\ k < m[2])
                      /\ Cardinality({ k \in Markers(text) : k < m[1] }) % 2 = 0 } }

\* The block the extraction selects: from the first marker that is directly
\* followed by the label json and has a marker after it or, when there is
\* none, from the first marker that has a marker after it, up to the next marker.
SelectedBlock(text) ==
  LET labelled == { a \in Markers(text) :
                      /\ a + 1 \in DOMAIN text
                      /\ text[a + 1] = LABEL
                      /\ \E b \in Markers(text) : b > a + 1 }
      plain == { a \in Markers(text) : \E b \in Markers(text) : b > a }
      first(S) == CHOOSE a \in S : \A x \in S : a <= x
  IN IF labelled # {}
     THEN LET a == first(labelled)
          IN Some(SubSeq(text, a + 2, first({ b \in Markers(text) : b > a + 1 }) - 1))
     ELSE IF plain # {}
     THEN LET a == first(plain)
          IN Some(SubSeq(text, a + 1, first({ b \in Markers(text) : b > a }) - 1))
     ELSE UNDEFINED

SelectedBlockConforms(text) ==
  ~isUndefined(SelectedBlock(text)) /\ IsConformingJson(valueOf(SelectedBlock(text)))

\* the first completion text has been received and validation has run on it
FirstTextSeen == content # << >>

\* no repair request was sent, and the run went on with this output
ProceedsWith(validated) ==
  /\ chatCalls = 1
  /\ parsed = Some(validated)

\* C9 as stated: when the first completion text is valid JSON conforming to
\* the schema, or is not but contains a fenced code block whose contents are,
\* the run proceeds with that value and sends no repair request.
C9_Stated_AnyFencedBlockShortCircuits ==
  FirstTextSeen =>
    /\ IsConformingJson(content) => ProceedsWith(OutputOf(content))
    /\ (~IsConformingJson(content)
        /\ \E block \in FencedBlocks(content) : IsConformingJson(block))
         => \E block \in FencedBlocks(content) :
              IsConformingJson(block) /\ ProceedsWith(OutputOf(block))

\* C9 as amended: when the first completion text is valid JSON conforming to
\* the schema, or is not but the fenced block the extraction selects is, the
\* run proceeds with that value and sends no repair request.
C9_SelectedBlockShortCircuits ==
  FirstTextSeen =>
    /\ IsConformingJson(content) => ProceedsWith(OutputOf(content))
    /\ (~IsConformingJson(content) /\ SelectedBlockConforms(content))
         => ProceedsWith(OutputOf(valueOf(SelectedBlock(content))))

C9_Witness ==
  /\ content = <<PROSE, FENCE, SPACE, "review2", FENCE, PROSE>>
  /\ ProceedsWith(Review("review2"))

\* both earlier stages have failed on the first completion text
BothStagesFailed ==
  /\ FirstTextSeen
  /\ ~IsConformingJson(content)
  /\ ~SelectedBlockConforms(content)

\* C10: main calls openaiChat at most twice in a run; the second call, the
\* repair request, is made exactly when the direct parse and the fenced-block
\* extraction of the first text have both failed, and not before.
C10_OneRepairAfterBothStagesFail ==
  /\ chatCalls <= 2
  /\ chatCalls = 2 => BothStagesFailed
  /\ BothStagesFailed => chatCalls = 2

C10_Witness ==
  /\ chatCalls = 2
  /\ content = <<FENCE, LABEL, "other", FENCE>>
  /\ parsed = Some(Review("review1"))
  /\ repaired = <<"review1">>

----------------------------------------------------------------------------
(* Properties of dispatch and publication in a run, under Spec *)

\* the places of the host log that hold a call of this name
CallsOf(name) == { i \in DOMAIN hostLog : hostLog[i].call = name }

\* the places of the host log that hold a call
HostCalls == { i \in DOMAIN hostLog : hostLog[i].call # "reply" }

\* the text of the repair response has been received
RepairTextSeen == repaired # << >>

\* C11: the repair response is parsed directly only. When it is not itself
\* valid JSON conforming to the schema, whether or not it holds a fenced block
\* that is, the run ends with exit code 1 and no call that publishes (inline
\* review, comment, blob, tree, commit, ref update) has been made.
C11_RepairParsedDirectlyOnly ==
  (RepairTextSeen /\ ~IsConformingJson(repaired)) =>
    /\ mpc = "exit1"
    /\ isUndefined(parsed)
    /\ HostCalls = {}

\* the repair response holds a conforming output in a fenced block labelled json
C11_Witness ==
  /\ repaired = <<FENCE, LABEL, SPACE, "review1", SPACE, FENCE>>
  /\ SelectedBlockConforms(repaired)
  /\ mpc = "exit1"

\* the lines of the patches the host reports
DocLines == << <<"@", "@">>, <<"+", "a">> >>

\* the lines a patch text stands for
LinesOf(text) == CHOOSE ls \in {ExampleLines, DocLines} : join(ls) = text

\* the comments handed to the dispatcher
Dispatched == valueOf(output).comments

\* the in-scope patches of a path
PatchesOfPath(path) ==
  { patchByPath[i][2] : i \in { j \in DOMAIN patchByPath : patchByPath[j][1] = path } }

\* The comment is anchorable: it has an ordinal and its own file has an
\* in-scope patch with at least that many added lines.
Anchorable(c) ==
  /\ ~isUndefined(c.line)
  /\ \E pt \in PatchesOfPath(c.path) :
       valueOf(c.line) \in 1..Cardinality(AdditionRows(LinesOf(pt)))

\* the entry of the inline review for an anchorable comment
AnchoredEntry(c) ==
  LET pt == CHOOSE x \in PatchesOfPath(c.path) : TRUE
  IN [path |-> c.path,
      position |-> NthAdditionRow(LinesOf(pt), valueOf(c.line)),
      body |-> [text |-> c.body, suggestion |-> c.suggestion]]

\* the anchorable comments among cs, in their order, as entries
RECURSIVE AnchoredEntries(_)
AnchoredEntries(cs) ==
  IF Len(cs) = 0 THEN << >>
  ELSE (IF Anchorable(cs[1]) THEN << AnchoredEntry(cs[1]) >> ELSE << >>)
       \o AnchoredEntries(Tail(cs))

\* C12: when at least one dispatched comment is anchorable, exactly one
\* createReview call is made, and it carries exactly the anchorable comments,
\* each with the position of its added line in the patch of its own file; a
\* comment with no ordinal, with an ordinal past the added lines, or on a
\* path with no in-scope patch is in no inline review.
C12_InlineReviewCarriesTheAnchorable ==
  ~isUndefined(output) =>
    /\ (\E i \in DOMAIN Dispatched : Anchorable(Dispatched[i])) =>
         /\ Cardinality(CallsOf("createReview")) = 1
         /\ \A i \in CallsOf("createReview") :
              hostLog[i].arg.comments = AnchoredEntries(Dispatched)
    /\ \A i \in CallsOf("createReview") :
         \A k \in DOMAIN hostLog[i].arg.comments :
            \E j \in DOMAIN Dispatched :
               /\ Anchorable(Dispatched[j])
               /\ hostLog[i].arg.comments[k] = AnchoredEntry(Dispatched[j])

\* of three comments (an ordinal past the added lines of src/a.js, the first
\* added line of README.md, no ordinal) the inline review carries the second,
\* at position 2 of README.md's patch
C12_Witness ==
  /\ parsed = Some(Review("review4"))
  /\ Len(Dispatched) = 3
  /\ \E i \in CallsOf("createReview") :
       /\ Len(hostLog[i].arg.comments) = 1
       /\ hostLog[i].arg.comments[1].path = <<"README.md">>
       /\ hostLog[i].arg.comments[1].position = 2

\* the entry of the host log is a reply of this status
IsReply(entry, status) == entry.call = "reply" /\ entry.arg = status

\* the places of the host log where the host answers a createReview call
\* with this status
ReviewRepliedWith(status) ==
  { i \in DOMAIN hostLog :
      /\ i > 1
      /\ IsReply(hostLog[i], status)
      /\ hostLog[i - 1].call = "createReview" }

\* the places of the host log that hold the call publishing the fallback comment
FallbackCalls ==
  { i \in CallsOf("createComment") : hostLog[i].arg.kind = "fallback" }

\* what the fallback comment lists for the comments cs: path, ordinal when
\* present, body, suggestion when present
ListingOf(cs) ==
  [i \in 1..Len(cs) |->
     [path |-> cs[i].path, line |-> cs[i].line, body |-> cs[i].body,
      suggestion |-> cs[i].suggestion]]

\* the fallback comment, listing every dispatched comment, is published once
FallbackPublishedOnce ==
  /\ Cardinality(FallbackCalls) = 1
  /\ \A i \in FallbackCalls : hostLog[i].arg.snippets = ListingOf(Dispatched)

\* C13: when the host rejects the inline review with status 422, createReview
\* is not called again, and exactly one fallback comment is published, which
\* lists every dispatched comment, anchorable or not, with its path, its
\* ordinal when present, its body and its suggestion when present.
C13_RejectedReviewFallsBackOnce ==
  ReviewRepliedWith(422) # {} =>
    /\ Cardinality(CallsOf("createReview")) = 1
    /\ FallbackPublishedOnce
    /\ \A i \in ReviewRepliedWith(422) : i + 1 \in FallbackCalls

\* the review of one anchorable and one unanchorable comment is rejected and
\* the fallback comment, listing both, is accepted by the host
C13_Witness ==
  /\ ReviewRepliedWith(422) # {}
  /\ parsed = Some(Review("review2"))
  /\ Len(Dispatched) = 2
  /\ \E i \in FallbackCalls :
       /\ Len(hostLog[i].arg.snippets) = 2
       /\ i < Len(hostLog)
       /\ IsReply(hostLog[i + 1], 201)

\* C14 as stated: a failure of createReview with a status other than 422 ends
\* the run with exit code 1 and no fallback comment is published for it.
C14_Stated_OtherReviewFailureIsFatal ==
  ReviewRepliedWith(500) # {} => (mpc = "exit1" /\ FallbackCalls = {})

\* C14 as amended: a failure of createReview is caught whatever its status,
\* 422 or other: the reply is followed at once by the one call that publishes
\* the fallback comment, and the run goes on from there.
C14_EveryReviewFailureFallsBack ==
  \A st \in ReviewRefusals :
    \A i \in ReviewRepliedWith(st) :
       /\ i + 1 \in FallbackCalls
       /\ Cardinality(FallbackCalls) = 1
       /\ (mpc = "exit1" => Len(hostLog) > i + 1)

\* the host answers the inline review with status 500, and the run completes
C14_Witness ==
  /\ ReviewRepliedWith(500) # {}
  /\ mpc = "done"

\* the comments of the validated output
Validated == valueOf(parsed).comments

\* C15: when the validated output has comments and none of them is
\* anchorable, createReview is never called and exactly one fallback comment,
\* listing all dispatched comments, is published; when it has no comments,
\* neither an inline review nor a fallback comment is published.
C15_NoAnchorableSkipsTheReview ==
  ~isUndefined(output) =>
    /\ (Len(Validated) >= 1 /\ \A i \in DOMAIN Validated : ~Anchorable(Validated[i])) =>
         /\ CallsOf("createReview") = {}
         /\ FallbackPublishedOnce
    /\ Len(Validated) = 0 =>
         /\ CallsOf("createReview") = {}
         /\ FallbackCalls = {}

\* three comments, none anchorable under the default target globs: the run
\* completes with the fallback comment and without an inline review
C15_Witness ==
  /\ parsed = Some(Review("review4"))
  /\ \A i \in DOMAIN Validated : ~Anchorable(Validated[i])
  /\ Len(Dispatched) = 3
  /\ CallsOf("createReview") = {}
  /\ mpc = "done"

\* the comment is in an inline review that the host accepted
PublishedInline(c) ==
  /\ Anchorable(c)
  /\ \E i \in ReviewRepliedWith(200) :
       \E k \in DOMAIN hostLog[i - 1].arg.comments :
          hostLog[i - 1].arg.comments[k] = AnchoredEntry(c)

\* the comment is listed in a fallback comment that the host accepted
PublishedInFallback(c) ==
  \E i \in FallbackCalls :
     /\ i < Len(hostLog)
     /\ IsReply(hostLog[i + 1], 201)
     /\ \E k \in DOMAIN hostLog[i].arg.snippets :
          hostLog[i].arg.snippets[k] =
            [path |-> c.path, line |-> c.line, body |-> c.body, suggestion |-> c.suggestion]

\* C16: in every run that completes, each dispatched comment has been
\* published, in the inline review or in the fallback comment, also when some
\* comments are anchorable, others are not, and the host accepts the review.
C16_EveryDispatchedCommentIsPublished ==
  (mpc = "done" /\ ~isUndefined(output)) =>
    \A j \in DOMAIN Dispatched :
       PublishedInline(Dispatched[j]) \/ PublishedInFallback(Dispatched[j])

\* the configuration file disables the tests, the docs
TestsDisabled == ~isUndefined(config) /\ valueOf(config).testsEnabled = Some(FALSE)
DocsDisabled == ~isUndefined(config) /\ valueOf(config).docsEnabled = Some(FALSE)

\* no blob is created for one of these files and no tree holds its path
NeverPublished(fs) ==
  \A k \in DOMAIN fs :
     /\ \A i \in CallsOf("createBlob") : hostLog[i].arg.content # fs[k].content
     /\ \A i \in CallsOf("createTree") :
          \A e \in DOMAIN hostLog[i].arg.tree : hostLog[i].arg.tree[e].path # fs[k].path

\* the tests and docs of the validated output that the configuration lets through
EnabledFiles ==
  (IF TestsDisabled THEN << >> ELSE valueOf(parsed).tests)
  \o (IF DocsDisabled THEN << >> ELSE valueOf(parsed).docs)

\* the calls that commit files to the branch
CommitCalls ==
  CallsOf("createBlob") \cup CallsOf("getCommit") \cup CallsOf("createTree")
    \cup CallsOf("createCommit") \cup CallsOf("updateRef")

\* C17: with tests disabled by the configuration, no blob is created for a
\* test the model proposes and no tree holds a test's path; likewise for docs
\* when docs are disabled; and when both resulting lists are empty no blob,
\* tree, commit or ref update is made.
C17_DisabledFilesAreNeverPublished ==
  ~isUndefined(parsed) =>
    /\ TestsDisabled => NeverPublished(valueOf(parsed).tests)
    /\ DocsDisabled => NeverPublished(valueOf(parsed).docs)
    /\ Len(EnabledFiles) = 0 => CommitCalls = {}

\* tests are disabled, the model proposes a test and a doc, and the run
\* completes having committed the doc alone
C17_Witness ==
  /\ TestsDisabled
  /\ parsed = Some(Review("review3"))
  /\ mpc = "done"
  /\ \E i \in CallsOf("createTree") : Len(hostLog[i].arg.tree) = 1

\* the host accepted the call at place i of the host log
Accepted(i) ==
  /\ i < Len(hostLog)
  /\ hostLog[i + 1].call = "reply"
  /\ hostLog[i + 1].arg \in {200, 201}

\* the place of the k-th call of this name
NthCall(name, k) ==
  CHOOSE i \in CallsOf(name) : Cardinality({ j \in CallsOf(name) : j <= i }) = k

\* A blob has been created for each of the files fs, a tree with their paths,
\* a commit and the update of the branch, each accepted by the host.
CommitCarriedOut(fs) ==
  /\ Cardinality(CallsOf("createBlob")) = Len(fs)
  /\ \A k \in DOMAIN fs :
       /\ hostLog[NthCall("createBlob", k)].arg.content = fs[k].content
       /\ Accepted(NthCall("createBlob", k))
  /\ \E i \in CallsOf("createTree") :
       /\ Accepted(i)
       /\ { hostLog[i].arg.tree[e].path : e \in DOMAIN hostLog[i].arg.tree }
            = { fs[k].path : k \in DOMAIN fs }
  /\ \E i \in CallsOf("createCommit") : Accepted(i)
  /\ \E i \in CallsOf("updateRef") : Accepted(i)

\* the places of the host log where the comments are over and the host has
\* refused nothing that main does not guard: any reply to createReview that
\* is not followed by the fallback comment, and the acceptance of the
\* fallback comment
CommentsOver ==
  { i \in DOMAIN hostLog :
      /\ i > 1
      /\ hostLog[i].call = "reply"
      /\ \/ /\ hostLog[i - 1].call = "createReview"
            /\ i + 1 \notin FallbackCalls
         \/ /\ i - 1 \in FallbackCalls
            /\ hostLog[i].arg = 201 }

\* the host has refused a call other than createReview, as the last thing
\* that happened
EndedByHostRefusal ==
  /\ Len(hostLog) > 1
  /\ hostLog[Len(hostLog)].call = "reply"
  /\ hostLog[Len(hostLog)].arg \in {422, 500}
  /\ hostLog[Len(hostLog) - 1].call # "createReview"

Refused(i) ==
  /\ i < Len(hostLog)
  /\ hostLog[i + 1].call = "reply"
  /\ hostLog[i + 1].arg \in {422, 500}

\* the places of the host log that hold the comment on the push
PushedCalls ==
  { i \in CallsOf("createComment") : hostLog[i].arg.kind = "pushed" }

\* C19: the branch is updated with force disabled only, at most once in a
\* run, to the commit that main created with the head commit read at the
\* start as its sole parent; when the host refuses the update, as it does
\* when the branch has moved meanwhile, the run ends with exit code 1, the
\* update is not made again, the branch keeps what the other push gave it and
\* the comment on the push is not posted.
C19_BranchUpdatedWithoutForce ==
  /\ Cardinality(CallsOf("updateRef")) <= 1
  /\ \A i \in CallsOf("updateRef") :
       /\ hostLog[i].arg.force = FALSE
       /\ hostLog[i].arg.sha = newCommit
       /\ \E j \in CallsOf("createCommit") :
            /\ j < i
            /\ Accepted(j)
            /\ hostLog[j].arg.parents = <<headSha>>
       /\ Refused(i) =>
            /\ mpc = "exit1"
            /\ Len(hostLog) = i + 1
            /\ PushedCalls = {}
            /\ branch # newCommit
       /\ (branch # headSha /\ ~Accepted(i)) => branch = "pushed by another"
  /\ branch = newCommit => \E i \in CallsOf("updateRef") : Accepted(i)

\* the branch moves while main runs and the host refuses the update
C19_Witness ==
  /\ branch = "pushed by another"
  /\ \E i \in CallsOf("updateRef") : i < Len(hostLog) /\ IsReply(hostLog[i + 1], 422)
  /\ mpc = "exit1"

\* the comment cap the configuration file gives, or the default
ConfiguredCap ==
  IF isUndefined(config) \/ isUndefined(valueOf(config).maxComments)
  THEN Defaults.MAX_COMMENTS
  ELSE valueOf(valueOf(config).maxComments)

\* C20: after validation the comments handed to the dispatcher are never
\* more than the configured cap (review.maxComments, 30 by default), for every
\* configured cap; when the model returns more, they are the first cap
\* comments in the returned order.
C20_DispatchedWithinConfiguredCap ==
  ~isUndefined(output) =>
    /\ Len(Dispatched) <= ConfiguredCap
    /\ Len(Validated) > ConfiguredCap => Dispatched = SubSeq(Validated, 1, ConfiguredCap)
    /\ Len(Validated) <= ConfiguredCap => Dispatched = Validated

\* The entries es are among the entries all, in the order they have there.
InOrderOf(es, all) ==
  \E f \in [DOMAIN es -> DOMAIN all] :
     /\ \A k \in DOMAIN es : es[k] = all[f[k]]
     /\ \A k, l \in DOMAIN es : k < l => f[k] < f[l]

\* what the inline review would hold of the comments cs were they all
\* anchorable; an entry that no review can hold stands for the others
EntriesOf(cs) ==
  [j \in DOMAIN cs |->
     IF Anchorable(cs[j]) THEN AnchoredEntry(cs[j])
     ELSE [path |-> cs[j].path, position |-> 0,
           body |-> [text |-> cs[j].body, suggestion |-> cs[j].suggestion]]]

\* the calls of this name made before place i of the host log and accepted
AcceptedBefore(name, i) == { j \in CallsOf(name) : j < i /\ Accepted(j) }

\* C21: order is kept. The comments of the inline review and the entries of
\* the fallback comment stand in the order in which the completion returned
\* them. Host calls are made one at a time, each after the reply to the one
\* before; the blobs are asked for in the order of the tests and then of the
\* docs, the tree lists them in that order and is created after every blob,
\* the commit after the tree, and the branch is updated after the commit.
C21_OrderIsPreserved ==
  ~isUndefined(output) =>
    /\ \A i \in CallsOf("createReview") :
         InOrderOf(hostLog[i].arg.comments, EntriesOf(Validated))
    /\ \A i \in FallbackCalls :
         InOrderOf(hostLog[i].arg.snippets, ListingOf(Validated))
    /\ \A i \in HostCalls : i < Len(hostLog) => hostLog[i + 1].call = "reply"
    /\ Cardinality(CallsOf("createBlob")) <= Len(EnabledFiles)
    /\ \A k \in 1..Cardinality(CallsOf("createBlob")) :
         hostLog[NthCall("createBlob", k)].arg.content = EnabledFiles[k].content
    /\ \A i \in CallsOf("createTree") :
         /\ Cardinality(AcceptedBefore("createBlob", i)) = Len(EnabledFiles)
         /\ [e \in DOMAIN hostLog[i].arg.tree |-> hostLog[i].arg.tree[e].path]
              = [k \in DOMAIN EnabledFiles |-> EnabledFiles[k].path]
    /\ \A i \in CallsOf("createCommit") : AcceptedBefore("createTree", i) # {}
    /\ \A i \in CallsOf("updateRef") : AcceptedBefore("createCommit", i) # {}

\* two comments returned on the second and then on the first added line, two
\* tests and two docs: the review holds positions 4 and 3 in that order and
\* the run completes with four blobs
C21_Witness ==
  /\ parsed = Some(Review("review5"))
  /\ mpc = "done"
  /\ \E i \in CallsOf("createReview") :
       /\ Len(hostLog[i].arg.comments) = 2
       /\ hostLog[i].arg.comments[1].position = 4
       /\ hostLog[i].arg.comments[2].position = 3
  /\ Cardinality(CallsOf("createBlob")) = 4

----------------------------------------------------------------------------
(* Properties of the run as a whole, under SpecFair and Spec *)

\* The completion requests sent so far in the run, over both calls
TotalRequests == earlierRequests + Cardinality(Events("request"))

\* line 413 was reached: the run logged "Review complete" and returned
ReviewComplete == mpc = "done" /\ patchByPath # << >>

\* lines 247-250: the run returned early, having found no eligible diff
NoEligibleDiffs == mpc = "done" /\ patchByPath = << >>

\* lines 417-420: an error left main and the process exited with status 1
FatalOutcome == mpc = "exit1"

C23_InlineReviewAndFallbackExclude ==
  /\ Cardinality(CallsOf("createReview")) <= 1
  /\ Cardinality(FallbackCalls) <= 1
  /\ ~(ReviewRepliedWith(200) # {} /\ FallbackCalls # {})
  /\ \A f \in FallbackCalls :
       /\ ~inlinePosted
       /\ \A r \in CallsOf("createReview") : r < f /\ Refused(r)
  /\ inlinePosted <=> ReviewRepliedWith(200) # {}

\* A run that ended with an inline review accepted and comments listed for
\* the fallback comment, which was not published
C23_Witness ==
  /\ mpc = "done"
  /\ ReviewRepliedWith(200) # {}
  /\ Len(fallbackSnippets) = 3
  /\ FallbackCalls = {}
  /\ Cardinality(CallsOf("createReview")) = 1

====
